---- MODULE Spec2Model ----
(***************************************************************************)
(* Model of src/src/ado-git-migration-cli.py: the consolidation pipeline   *)
(* (main, run, the __main__ exception handlers) and the authenticated-URL  *)
(* builder get_auth_url.                                                   *)
(*                                                                         *)
(* Strings are sequences of one-character strings, so that URL parsing,    *)
(* concatenation and substring search are computed character by character. *)
(* Literal text of the program that is only ever printed (log banners,     *)
(* fixed command words) is carried as a single opaque symbol.              *)
(***************************************************************************)
EXTENDS Integers, Sequences, FiniteSets, TLC

\* ------------------------------------------------------------------------
\* Bounds of the model
\* ------------------------------------------------------------------------

\* exit statuses 0..MaxSmallStatus are enumerated besides the special ones
MaxSmallStatus == 2

\* ------------------------------------------------------------------------
\* Python values
\* ------------------------------------------------------------------------

\* Python's None, where a string (or a path) is expected
None == <<"<None>">>

\* truthiness of an Optional[str]: None and '' are falsy
Truthy(x) == x # None /\ x # <<>>

\* Python's `a or b` on Optional[str]
Or(a, b) == IF Truthy(a) THEN a ELSE b

\* a literal of the program, kept as one symbol
Lit(s) == <<s>>

\* s.find(any character of C), 1-based; 0 when absent
Find(s, C) ==
    IF \E i \in 1..Len(s) : s[i] \in C
    THEN CHOOSE i \in 1..Len(s) : s[i] \in C /\ \A j \in 1..(i - 1) : s[j] \notin C
    ELSE 0

\* s[i:] with a 1-based i
From(s, i) == SubSeq(s, i, Len(s))

\* `sub in s` for strings
Contains(s, sub) ==
    \E i \in 1..(Len(s) - Len(sub) + 1) : SubSeq(s, i, i + Len(sub) - 1) = sub

\* ------------------------------------------------------------------------
\* urllib.parse as used by get_auth_url
\* ------------------------------------------------------------------------

UpperLetters == <<"A","B","C","D","E","F","G","H","I","J","K","L","M",
                  "N","O","P","Q","R","S","T","U","V","W","X","Y","Z">>
LowerLetters == <<"a","b","c","d","e","f","g","h","i","j","k","l","m",
                  "n","o","p","q","r","s","t","u","v","w","x","y","z">>
Digits == {"0","1","2","3","4","5","6","7","8","9"}
Letters == {UpperLetters[i] : i \in 1..26} \cup {LowerLetters[i] : i \in 1..26}

\* urllib.parse.scheme_chars
scheme_chars == Letters \cup Digits \cup {"+", "-", "."}

\* str.lower() on one character
lower_char(c) ==
    IF \E i \in 1..26 : UpperLetters[i] = c
    THEN LowerLetters[CHOOSE i \in 1..26 : UpperLetters[i] = c]
    ELSE c

\* str.lower()
lower(s) == [i \in 1..Len(s) |-> lower_char(s[i])]

\* urlsplit, scheme part: url[:i].lower() when url[:i] is a valid scheme
split_scheme(url) ==
    LET i == Find(url, {":"}) IN
    IF i > 1 /\ url[1] \in Letters /\ \A j \in 1..(i - 1) : url[j] \in scheme_chars
    THEN [scheme |-> lower(SubSeq(url, 1, i - 1)), rest |-> From(url, i + 1)]
    ELSE [scheme |-> <<>>, rest |-> url]

\* urlsplit, authority part: after '//' up to the first of '/', '?', '#'
split_netloc(url) ==
    IF Len(url) >= 2 /\ url[1] = "/" /\ url[2] = "/"
    THEN LET body == From(url, 3)
             d    == Find(body, {"/", "?", "#"})
         IN  IF d = 0
             THEN [netloc |-> body, rest |-> <<>>]
             ELSE [netloc |-> SubSeq(body, 1, d - 1), rest |-> From(body, d)]
    ELSE [netloc |-> <<>>, rest |-> url]

\* urlsplit, fragment then query
split_at(url, c) ==
    LET i == Find(url, {c}) IN
    IF i = 0 THEN [head |-> url, tail |-> <<>>]
    ELSE [head |-> SubSeq(url, 1, i - 1), tail |-> From(url, i + 1)]

\* urllib.parse.urlparse(url); the params component is always empty because
\* no modelled URL contains ';'
urlparse(url) ==
    LET s == split_scheme(url)
        n == split_netloc(s.rest)
        f == split_at(n.rest, "#")
        q == split_at(f.head, "?")
    IN  [scheme |-> s.scheme, netloc |-> n.netloc, path |-> q.head,
         query |-> q.tail, fragment |-> f.tail]

\* ParseResult.geturl(), i.e. urlunparse/urlunsplit
geturl(p) ==
    LET u1 == IF p.netloc # <<>>
              THEN <<"/", "/">> \o p.netloc \o
                   (IF p.path # <<>> /\ p.path[1] # "/" THEN <<"/">> ELSE <<>>) \o p.path
              ELSE p.path
        u2 == IF p.scheme # <<>> THEN p.scheme \o <<":">> \o u1 ELSE u1
        u3 == IF p.query # <<>> THEN u2 \o <<"?">> \o p.query ELSE u2
    IN  IF p.fragment # <<>> THEN u3 \o <<"#">> \o p.fragment ELSE u3

\* get_auth_url testing `pat is None` instead of `not pat`
get_auth_url_none_only(base_url, username, pat) ==
    IF pat = None
    THEN base_url
    ELSE LET parsed    == urlparse(base_url)
             auth_user == IF Truthy(username) THEN username ELSE pat
             netloc    == auth_user \o <<":">> \o pat \o <<"@">> \o parsed.netloc
         IN  geturl([parsed EXCEPT !.netloc = netloc])

\* get_auth_url testing `username is not None` instead of `username`
get_auth_url_empty_user(base_url, username, pat) ==
    IF ~Truthy(pat)
    THEN base_url
    ELSE LET parsed    == urlparse(base_url)
             auth_user == IF username # None THEN username ELSE pat
             netloc    == auth_user \o <<":">> \o pat \o <<"@">> \o parsed.netloc
         IN  geturl([parsed EXCEPT !.netloc = netloc])

\* get_auth_url(base_url, username, pat)
get_auth_url(base_url, username, pat) ==
    IF ~Truthy(pat)
    THEN base_url
    ELSE LET parsed    == urlparse(base_url)
             auth_user == IF Truthy(username) THEN username ELSE pat
             netloc    == auth_user \o <<":">> \o pat \o <<"@">> \o parsed.netloc
         IN  geturl([parsed EXCEPT !.netloc = netloc])

\* ------------------------------------------------------------------------
\* Inputs: command-line arguments and environment
\* ------------------------------------------------------------------------

\* https://dev.az/A
OrgA == <<"h","t","t","p","s",":","/","/","d","e","v",".","a","z","/","A">>
\* https://h:8/o
OrgB == <<"h","t","t","p","s",":","/","/","h",":","8","/","o">>

OrgUrls == {OrgA, OrgB}
Projects == {<<"P","r">>, <<"F">>}

\* a personal access token, a plain username, and an e-mail style username
Tok   == <<"k","9","Z">>
User  == <<"b","o","b">>
Email == <<"a","@","c">>

\* the argparse.Namespace of parse_args together with the two environment
\* variables main reads; each credential comes from at most one source
Configs ==
    {c \in [org_url : OrgUrls, project : Projects,
            prod_repo : {<<"p">>}, non_prod_repo : {<<"n","p">>}, target : {<<"t">>},
            nonprod_branch : {<<"m","a","i","n">>}, dev_branch : {<<"d","e","v">>},
            pat : {None, Tok}, env_pat : {None, <<>>, Tok},
            username : {None, User}, env_username : {None, Email},
            verbose : BOOLEAN] :
        /\ c.pat = None \/ c.env_pat = None
        /\ c.username = None \/ c.env_username = None}

\* sys.exit(130) of the KeyboardInterrupt handler
InterruptExit == 130

\* exit statuses a child process can return, and the signals that can kill it
ExitStatuses == (0..MaxSmallStatus) \cup {128, InterruptExit, 255}
Signals == {2, 9}

\* subprocess.CompletedProcess.returncode: the exit status, or -N when the
\* child was killed by signal N
ReturnCodes == ExitStatuses \cup {0 - n : n \in Signals}

\* ------------------------------------------------------------------------
\* State
\* ------------------------------------------------------------------------

VARIABLES
    cfg,          \* args and environment, fixed for the run
    pc,           \* the step of main whose command was invoked last, then
                  \* "summary" after the summary and "exit" after the end
    invoked,      \* the external commands invoked so far, in order
    returncodes,  \* the return codes of the completed commands, in order
    running,      \* TRUE while subprocess.run is waiting for a child
    raised,       \* the exception propagating, if any
    log,          \* the log records emitted
    scope,        \* TRUE inside `with tempfile.TemporaryDirectory()`
    disk,         \* the paths of the working directory that exist on disk
    exitcode,     \* the exit status of the process, once pc = "exit"
    call,         \* the arguments of the last get_auth_url call
    result        \* its return value

vars == <<cfg, pc, invoked, returncodes, running, raised, log, scope, disk,
          exitcode, call, result>>

\* ------------------------------------------------------------------------
\* Values derived in main
\* ------------------------------------------------------------------------

pat_of(c) == Or(c.pat, c.env_pat)
username_of(c) == Or(c.username, c.env_username)

repo_url(c, repo) ==
    c.org_url \o <<"/">> \o c.project \o <<"/","_","g","i","t","/">> \o repo

prod_url(c) == repo_url(c, c.prod_repo)
\* nonprod_url built from the production repository name
nonprod_url_copied(c) == repo_url(c, c.prod_repo)
nonprod_url(c) == repo_url(c, c.non_prod_repo)
target_url(c) == repo_url(c, c.target)

auth_target_url(c) == get_auth_url(target_url(c), username_of(c), pat_of(c))
auth_nonprod_url(c) == get_auth_url(nonprod_url(c), username_of(c), pat_of(c))

\* the directory of tempfile.TemporaryDirectory() and the clone below it
tempdir == Lit("/tmp/tmpdir")
target_clone_path == tempdir \o Lit("/merged")

\* git_env testing `pat is not None` instead of `pat`
git_env_none_only(c) ==
    IF Or(c.pat, c.env_pat) # None
    THEN {<<"GIT_ASKPASS", Lit("echo")>>,
          <<"GIT_USERNAME", Or(Or(c.username, c.env_username), Or(c.pat, c.env_pat))>>,
          <<"GIT_PASSWORD", Or(c.pat, c.env_pat)>>}
    ELSE {}

\* the environment additions of the push
NoEnv == {}
git_env(c) ==
    IF Truthy(pat_of(c))
    THEN {<<"GIT_ASKPASS", Lit("echo")>>,
          <<"GIT_USERNAME", Or(username_of(c), pat_of(c))>>,
          <<"GIT_PASSWORD", pat_of(c)>>}
    ELSE NoEnv

\* ------------------------------------------------------------------------
\* The command lines
\* ------------------------------------------------------------------------

cmd_configure(c) ==
    <<Lit("az"), Lit("devops"), Lit("configure"), Lit("--defaults"),
      Lit("organization=") \o c.org_url, Lit("project=") \o c.project>>
cmd_create(c) ==
    <<Lit("az"), Lit("repos"), Lit("create"), Lit("--name"), c.target, Lit("--open")>>
cmd_import(c) ==
    <<Lit("az"), Lit("repos"), Lit("import"), Lit("create"),
      Lit("--git-source-url"), prod_url(c), Lit("--repository"), c.target>>
cmd_clone(c) ==
    <<Lit("git"), Lit("clone"), auth_target_url(c), target_clone_path>>
cmd_remote_add(c) ==
    <<Lit("git"), Lit("remote"), Lit("add"), Lit("nonprod"), auth_nonprod_url(c)>>
cmd_fetch(c) ==
    <<Lit("git"), Lit("fetch"), Lit("nonprod")>>
cmd_checkout(c) ==
    <<Lit("git"), Lit("checkout"), Lit("-b"), c.dev_branch,
      Lit("nonprod/") \o c.nonprod_branch>>
cmd_config(c) ==
    <<Lit("git"), Lit("config"), Lit("credential.helper"), Lit("store")>>
cmd_push(c) ==
    <<Lit("git"), Lit("push"), Lit("-u"), Lit("origin"), c.dev_branch>>

\* ------------------------------------------------------------------------
\* Logging
\* ------------------------------------------------------------------------

\* repr() of a str without quotes or escapes
repr_str(s) == <<"'">> \o s \o <<"'">>

RECURSIVE join_repr(_)
join_repr(l) ==
    IF l = <<>> THEN <<>>
    ELSE IF Len(l) = 1 THEN repr_str(l[1])
    ELSE repr_str(l[1]) \o <<",", " ">> \o join_repr(Tail(l))

\* the f-string rendering of a list of str
repr_list(l) == <<"[">> \o join_repr(l) \o <<"]">>

\* the f-string rendering of cwd
str_cwd(cwd) == IF cwd = None THEN Lit("None") ELSE cwd

\* logging.basicConfig(level=DEBUG if verbose else INFO): a record below the
\* level is dropped
Emit(lg, c, level, msg) ==
    IF level = "DEBUG" /\ ~c.verbose THEN lg
    ELSE Append(lg, [level |-> level, msg |-> msg])

msg_running(cmd, cwd) ==
    Lit("Running: ") \o repr_list(cmd) \o Lit(" (cwd=") \o str_cwd(cwd) \o Lit(")")
\* (the runs of dashes of the banners are abbreviated)
msg_no_pat == Lit("No PAT provided, will use existing Azure CLI authentication")
msg_defaults == Lit("<--- Starting Azure DevOps defaults --->")
msg_creating(c) == Lit("<--- Creating empty repository ") \o c.target \o Lit(" --->")
msg_exists(c) ==
    Lit("Repository ") \o c.target \o Lit(" already exists, skipping creation")
msg_importing(c) == Lit("<--- Importing prod history into ") \o c.target \o Lit(" --->")
msg_cloning == Lit("<--- Cloning target report and bringing in non-prod history --->")
msg_auth_push == Lit("Using authenticated Git push")
msg_finished(c) ==
    Lit("<--- Migration finished.  Repo ") \o c.target \o Lit(" now has\nmain -> prod history\n")
    \o c.dev_branch \o Lit(" -> non-prod history --->")
msg_failed(cmd) == Lit("Command failed ") \o repr_list(cmd)
msg_interrupted == Lit("Interrupted by user")

\* ------------------------------------------------------------------------
\* Exceptions
\* ------------------------------------------------------------------------

NoExc == [type |-> "None", returncode |-> 0, cmd |-> <<>>]
CalledProcessError(rc, cmd) ==
    [type |-> "CalledProcessError", returncode |-> rc, cmd |-> cmd]
KeyboardInterrupt == [type |-> "KeyboardInterrupt", returncode |-> 0, cmd |-> <<>>]

\* sys.exit following the shell's 128+N convention for a signalled child
sys_exit_shell(n) == IF n < 0 THEN 128 - n ELSE n % 256

\* sys.exit(n): the exit status of the process is n modulo 256
sys_exit(n) == n % 256

\* ------------------------------------------------------------------------
\* run(cmd, cwd, env)
\* ------------------------------------------------------------------------

\* no command is in flight and no exception is propagating: the previous
\* call of run has returned normally
Idle == ~running /\ raised = NoExc

\* run up to subprocess.run: the debug trace, then the child is started
Invoke(step, cmd, cwd, env, lg) ==
    /\ invoked' = Append(invoked, [step |-> step, cmd |-> cmd, cwd |-> cwd, env |-> env])
    /\ log' = Emit(lg, cfg, "DEBUG", msg_running(cmd, cwd))
    /\ running' = TRUE
    /\ pc' = step

\* subprocess.run returns: run raises CalledProcessError on a non-zero
\* return code.  A successful clone leaves the clone in the working directory.
Return(rc) ==
    /\ running
    /\ running' = FALSE
    /\ returncodes' = Append(returncodes, rc)
    /\ raised' = IF rc # 0
                 THEN CalledProcessError(rc, invoked[Len(invoked)].cmd)
                 ELSE NoExc
    /\ disk' = IF pc = "clone" /\ rc = 0 THEN disk \cup {target_clone_path} ELSE disk
    /\ UNCHANGED <<cfg, pc, invoked, log, scope, exitcode, call, result>>

\* ------------------------------------------------------------------------
\* main
\* ------------------------------------------------------------------------

Configure ==
    /\ pc = "start" /\ Idle
    /\ LET lg1 == IF ~Truthy(pat_of(cfg)) THEN Emit(log, cfg, "INFO", msg_no_pat) ELSE log
           lg2 == Emit(lg1, cfg, "INFO", msg_defaults)
       IN  Invoke("configure", cmd_configure(cfg), None, NoEnv, lg2)
    /\ UNCHANGED <<cfg, returncodes, raised, scope, disk, exitcode, call, result>>

Create ==
    /\ pc = "configure" /\ Idle
    /\ call' = [base_url |-> target_url(cfg), username |-> username_of(cfg),
                pat |-> pat_of(cfg)]
    /\ result' = auth_target_url(cfg)
    /\ Invoke("create", cmd_create(cfg), None, NoEnv,
              Emit(log, cfg, "INFO", msg_creating(cfg)))
    /\ UNCHANGED <<cfg, returncodes, raised, scope, disk, exitcode>>

\* a bare `except:` around the repository-create call
CreateExcept_bare ==
    /\ pc = "create" /\ ~running
    /\ raised # NoExc
    /\ raised' = NoExc
    /\ log' = Emit(log, cfg, "WARNING", msg_exists(cfg))
    /\ UNCHANGED <<cfg, pc, invoked, returncodes, running, scope, disk, exitcode,
                   call, result>>

\* `except subprocess.CalledProcessError: pass` around the repository-create
\* call
CreateExcept_silent ==
    /\ pc = "create" /\ ~running
    /\ raised.type = "CalledProcessError"
    /\ raised' = NoExc
    /\ UNCHANGED <<cfg, pc, invoked, returncodes, running, scope, disk, exitcode,
                   call, result, log>>

\* a handler that retries the repository-create call
CreateExcept_retry ==
    /\ pc = "create" /\ ~running
    /\ raised.type = "CalledProcessError"
    /\ raised' = NoExc
    /\ Invoke("create", cmd_create(cfg), None, NoEnv,
              Emit(log, cfg, "WARNING", msg_exists(cfg)))
    /\ UNCHANGED <<cfg, returncodes, scope, disk, exitcode, call, result>>

\* except subprocess.CalledProcessError around the repository-create call
CreateExcept ==
    /\ pc = "create" /\ ~running
    /\ raised.type = "CalledProcessError"
    /\ raised' = NoExc
    /\ log' = Emit(log, cfg, "WARNING", msg_exists(cfg))
    /\ UNCHANGED <<cfg, pc, invoked, returncodes, running, scope, disk, exitcode,
                   call, result>>

\* the with block opened before the import
Import_in_scope ==
    /\ pc = "create" /\ Idle
    /\ scope' = TRUE
    /\ disk' = {tempdir}
    /\ Invoke("import", cmd_import(cfg), None, NoEnv,
              Emit(log, cfg, "INFO", msg_importing(cfg)))
    /\ UNCHANGED <<cfg, returncodes, raised, exitcode, call, result>>

Import ==
    /\ pc = "create" /\ Idle
    /\ Invoke("import", cmd_import(cfg), None, NoEnv,
              Emit(log, cfg, "INFO", msg_importing(cfg)))
    /\ UNCHANGED <<cfg, returncodes, raised, scope, disk, exitcode, call, result>>

\* entering the with block creates the working directory
Clone ==
    /\ pc = "import" /\ Idle
    /\ scope' = TRUE
    /\ disk' = {tempdir}
    /\ Invoke("clone", cmd_clone(cfg), None, NoEnv,
              Emit(log, cfg, "INFO", msg_cloning))
    /\ UNCHANGED <<cfg, returncodes, raised, exitcode, call, result>>

RemoteAdd ==
    /\ pc = "clone" /\ Idle
    /\ call' = [base_url |-> nonprod_url(cfg), username |-> username_of(cfg),
                pat |-> pat_of(cfg)]
    /\ result' = auth_nonprod_url(cfg)
    /\ Invoke("remote_add", cmd_remote_add(cfg), target_clone_path, NoEnv, log)
    /\ UNCHANGED <<cfg, returncodes, raised, scope, disk, exitcode>>

Fetch ==
    /\ pc = "remote_add" /\ Idle
    /\ Invoke("fetch", cmd_fetch(cfg), target_clone_path, NoEnv, log)
    /\ UNCHANGED <<cfg, returncodes, raised, scope, disk, exitcode, call, result>>

Checkout ==
    /\ pc = "fetch" /\ Idle
    /\ Invoke("checkout", cmd_checkout(cfg), target_clone_path, NoEnv, log)
    /\ UNCHANGED <<cfg, returncodes, raised, scope, disk, exitcode, call, result>>

\* if pat: run(['git', 'config', 'credential.helper', 'store'])
GitConfig ==
    /\ pc = "checkout" /\ Idle
    /\ Truthy(pat_of(cfg))
    /\ Invoke("config", cmd_config(cfg), target_clone_path, NoEnv, log)
    /\ UNCHANGED <<cfg, returncodes, raised, scope, disk, exitcode, call, result>>

\* Push not waiting for the credential-helper configuration
Push_unordered ==
    /\ Idle
    /\ \/ pc = "checkout"
       \/ pc = "config"
    /\ Invoke("push", cmd_push(cfg), target_clone_path, git_env(cfg),
              IF Truthy(pat_of(cfg)) /\ cfg.verbose
              THEN Emit(log, cfg, "DEBUG", msg_auth_push)
              ELSE log)
    /\ UNCHANGED <<cfg, returncodes, raised, scope, disk, exitcode, call, result>>

Push ==
    /\ Idle
    /\ \/ pc = "checkout" /\ ~Truthy(pat_of(cfg))
       \/ pc = "config"
    /\ Invoke("push", cmd_push(cfg), target_clone_path, git_env(cfg),
              IF Truthy(pat_of(cfg)) /\ cfg.verbose
              THEN Emit(log, cfg, "DEBUG", msg_auth_push)
              ELSE log)
    /\ UNCHANGED <<cfg, returncodes, raised, scope, disk, exitcode, call, result>>

\* the summary logged before the push has returned
Summary_early ==
    /\ pc = "push" /\ raised = NoExc
    /\ log' = Emit(log, cfg, "INFO", msg_finished(cfg))
    /\ pc' = "summary"
    /\ UNCHANGED <<cfg, invoked, returncodes, running, raised, scope, disk,
                   exitcode, call, result>>

\* the summary, the last statement inside the with block
Summary ==
    /\ pc = "push" /\ Idle
    /\ log' = Emit(log, cfg, "INFO", msg_finished(cfg))
    /\ pc' = "summary"
    /\ UNCHANGED <<cfg, invoked, returncodes, running, raised, scope, disk,
                   exitcode, call, result>>

\* the normal exit of the with block (the working directory is removed) and
\* the normal end of the process
Finish ==
    /\ pc = "summary" /\ Idle
    /\ scope' = FALSE
    /\ disk' = {}
    /\ pc' = "exit"
    /\ exitcode' = 0
    /\ UNCHANGED <<cfg, invoked, returncodes, running, raised, log, call, result>>

\* a working directory made with mkdtemp and removed on the normal path only
ExitScope_leak ==
    /\ scope /\ raised # NoExc
    /\ scope' = FALSE
    /\ UNCHANGED <<cfg, pc, invoked, returncodes, running, raised, log, exitcode,
                   call, result, disk>>

\* TemporaryDirectory.__exit__ while an exception propagates out of the with
\* block: the working directory is removed with its contents
ExitScope ==
    /\ scope /\ raised # NoExc
    /\ scope' = FALSE
    /\ disk' = {}
    /\ UNCHANGED <<cfg, pc, invoked, returncodes, running, raised, log, exitcode,
                   call, result>>

\* the operator's interrupt: KeyboardInterrupt is raised in main, wherever it
\* is; subprocess.run kills a child it is waiting for and re-raises.  An
\* interrupt that arrives while another exception is already propagating
\* (during the removal of the working directory or inside a handler of
\* __main__) is not modelled.
Interrupt ==
    /\ pc # "exit" /\ raised = NoExc
    /\ raised' = KeyboardInterrupt
    /\ running' = FALSE
    /\ UNCHANGED <<cfg, pc, invoked, returncodes, log, scope, disk, exitcode,
                   call, result>>

\* __main__ exiting with a fixed status 1 on a failed command
MainExcept_fixed_status ==
    /\ pc # "exit" /\ raised # NoExc /\ ~scope
    /\ ~(pc = "create" /\ raised.type = "CalledProcessError")
    /\ IF raised.type = "CalledProcessError"
       THEN /\ log' = Emit(log, cfg, "ERROR", msg_failed(raised.cmd))
            /\ exitcode' = sys_exit(1)
       ELSE /\ log' = Emit(log, cfg, "INFO", msg_interrupted)
            /\ exitcode' = sys_exit(InterruptExit)
    /\ pc' = "exit"
    /\ UNCHANGED <<cfg, invoked, returncodes, running, raised, scope, disk,
                   call, result>>

\* main without the try/except around the repository-create call
MainExcept_create_fatal ==
    /\ pc # "exit" /\ raised # NoExc /\ ~scope
    /\ IF raised.type = "CalledProcessError"
       THEN /\ log' = Emit(log, cfg, "ERROR", msg_failed(raised.cmd))
            /\ exitcode' = sys_exit(raised.returncode)
       ELSE /\ log' = Emit(log, cfg, "INFO", msg_interrupted)
            /\ exitcode' = sys_exit(InterruptExit)
    /\ pc' = "exit"
    /\ UNCHANGED <<cfg, invoked, returncodes, running, raised, scope, disk,
                   call, result>>

\* the exception reaches the handlers of __main__; a CalledProcessError of
\* the repository-create call never gets here
MainExcept ==
    /\ pc # "exit" /\ raised # NoExc /\ ~scope
    /\ ~(pc = "create" /\ raised.type = "CalledProcessError")
    /\ IF raised.type = "CalledProcessError"
       THEN /\ log' = Emit(log, cfg, "ERROR", msg_failed(raised.cmd))
            /\ exitcode' = sys_exit(raised.returncode)
       ELSE /\ log' = Emit(log, cfg, "INFO", msg_interrupted)
            /\ exitcode' = sys_exit(InterruptExit)
    /\ pc' = "exit"
    /\ UNCHANGED <<cfg, invoked, returncodes, running, raised, scope, disk,
                   call, result>>

\* ------------------------------------------------------------------------
\* The pipeline
\* ------------------------------------------------------------------------

NoCall == [base_url |-> None, username |-> None, pat |-> None]

Init ==
    /\ cfg \in Configs
    /\ pc = "start"
    /\ invoked = <<>>
    /\ returncodes = <<>>
    /\ running = FALSE
    /\ raised = NoExc
    /\ log = <<>>
    /\ scope = FALSE
    /\ disk = {}
    /\ exitcode = 0
    /\ call = NoCall
    /\ result = None

Next ==
    \/ Configure
    \/ Create
    \/ CreateExcept
    \/ Import
    \/ Clone
    \/ RemoteAdd
    \/ Fetch
    \/ Checkout
    \/ GitConfig
    \/ Push
    \/ Summary
    \/ Finish
    \/ \E rc \in ReturnCodes : Return(rc)
    \/ ExitScope
    \/ Interrupt
    \/ MainExcept

Spec == Init /\ [][Next]_vars

\* ------------------------------------------------------------------------
\* get_auth_url on its own: the inputs are drawn from bounded sets
\* ------------------------------------------------------------------------

\* https://x@h/p, dev.az/A, HTTP://h/p, https://h/p?q#f, //h/p, https://h
UrlUserInfo == <<"h","t","t","p","s",":","/","/","x","@","h","/","p">>
UrlNoScheme == <<"d","e","v",".","a","z","/","A">>
UrlUpper    == <<"H","T","T","P",":","/","/","h","/","p">>
UrlQuery    == <<"h","t","t","p","s",":","/","/","h","/","p","?","q","#","f">>
UrlNoSchemeNetloc == <<"/","/","h","/","p">>
UrlBareHost == <<"h","t","t","p","s",":","/","/","h">>

AuthBaseUrls ==
    {target_url(c) : c \in Configs} \cup {nonprod_url(c) : c \in Configs}
    \cup {UrlUserInfo, UrlNoScheme, UrlUpper, UrlQuery, UrlNoSchemeNetloc, UrlBareHost}

AuthCalls ==
    [base_url : AuthBaseUrls, username : {None, <<>>, User, Email},
     pat : {None, <<>>, Tok, <<"7">>}]

InitAuth ==
    /\ cfg = CHOOSE c \in Configs : TRUE
    /\ pc = "start"
    /\ invoked = <<>>
    /\ returncodes = <<>>
    /\ running = FALSE
    /\ raised = NoExc
    /\ log = <<>>
    /\ scope = FALSE
    /\ disk = {}
    /\ exitcode = 0
    /\ call \in AuthCalls
    /\ result = None

GetAuthUrl ==
    /\ result = None
    /\ result' = get_auth_url(call.base_url, call.username, call.pat)
    /\ UNCHANGED <<cfg, pc, invoked, returncodes, running, raised, log, scope,
                   disk, exitcode, call>>

NextAuth == GetAuthUrl

SpecAuth == InitAuth /\ [][NextAuth]_vars

\* ------------------------------------------------------------------------
\* Properties
\* ------------------------------------------------------------------------

\* the command invoked last, and the return code of the command completed last
LastInvoked == invoked[Len(invoked)]
LastReturnCode == returncodes[Len(returncodes)]

\* the last command has completed with a non-zero exit status (1..255) and it
\* is not the repository-create command
FatalFailure ==
    /\ invoked # <<>>
    /\ Len(returncodes) = Len(invoked)
    /\ LastInvoked.step # "create"
    /\ LastReturnCode \in 1..255

\* C1: once a command other than repository-create has returned a non-zero
\* exit status s, no further command is invoked, and when the process exits
\* its exit status is s.
C1_AbortOnFailure ==
    [][FatalFailure =>
         /\ invoked' = invoked
         /\ (pc' = "exit" => exitcode' = LastReturnCode)]_vars

\* a run that ended on the failed fetch (the 5th command), with its status
C1_Witness ==
    /\ pc = "exit" /\ FatalFailure
    /\ LastInvoked.step = "fetch"
    /\ exitcode = 2

\* the repository-create command (the 2nd command) has failed
CreateFailed ==
    /\ Len(returncodes) >= 2
    /\ invoked[2].step = "create"
    /\ returncodes[2] # 0

\* C2: after a failed repository-create the run does not end on that failure
\* (only an interruption can end it before the import), and the command
\* invoked next is the import of the production history.
C2_CreateFailureTolerated ==
    CreateFailed =>
        /\ (pc = "exit" /\ Len(invoked) = 2) => raised = KeyboardInterrupt
        /\ Len(invoked) >= 3 =>
              /\ invoked[3].step = "import"
              /\ invoked[3].cmd = cmd_import(cfg)

\* a run with a failed repository-create that finished with exit code 0
C2_Witness ==
    /\ CreateFailed
    /\ pc = "exit" /\ exitcode = 0 /\ raised = NoExc
    /\ LastInvoked.step = "push"

Secrets(c) == {pat_of(c), auth_target_url(c), auth_nonprod_url(c)}

\* C4: when a token is present, no emitted log record contains the token or
\* an authenticated URL.
C4_NoCredentialInLog ==
    Truthy(pat_of(cfg)) =>
        \A i \in 1..Len(log) : \A x \in Secrets(cfg) : ~Contains(log[i].msg, x)

\* C5: once KeyboardInterrupt is raised it is not swallowed, no further
\* command is invoked, and the process exits with code 130.
C5_InterruptStops ==
    [][raised = KeyboardInterrupt =>
         /\ raised' = raised
         /\ invoked' = invoked
         /\ (pc' = "exit" => exitcode' = 130)]_vars

\* an interruption while the repository-create command was in flight
C5_Witness ==
    /\ pc = "exit" /\ raised = KeyboardInterrupt /\ exitcode = 130
    /\ Len(invoked) = 2 /\ Len(returncodes) = 1
    /\ LastInvoked.step = "create"

\* C6 as stated: a run that ends on a failed command never exits with 130.
C6_FailureNever130 ==
    (pc = "exit" /\ raised.type = "CalledProcessError") => exitcode # 130

\* C6 as amended: a run that ends on a failed command whose return code is
\* not 130 never exits with 130.
C6_FailureNot130Unless130 ==
    (pc = "exit" /\ raised.type = "CalledProcessError" /\ raised.returncode # 130)
        => exitcode # 130

\* a run that ended because the child was killed by SIGINT (return code -2)
C6_Witness ==
    /\ pc = "exit"
    /\ raised.type = "CalledProcessError" /\ raised.returncode = 0 - 2
    /\ exitcode = 254

\* C7: without a token (None or '') get_auth_url returns the base URL,
\* whatever the username.
C7_NoTokenIdentity ==
    (result # None /\ ~Truthy(call.pat)) => result = call.base_url

\* a call with a username, an empty token and a URL that has an authority
C7_Witness ==
    /\ result # None
    /\ call.pat = <<>> /\ call.username = User
    /\ call.base_url = UrlUserInfo

\* the principal the claim names: the username when given, else the token
Principal(c) == IF c.username # None /\ c.username # <<>> THEN c.username ELSE c.pat

\* C8: with a token the returned URL starts with the scheme of the base URL,
\* '//', principal:token@host, and the authority ends there.
C8_CredentialsEmbedded ==
    (result # None /\ Truthy(call.pat)) =>
        LET p   == urlparse(call.base_url)
            pre == (IF p.scheme = <<>> THEN <<>> ELSE p.scheme \o <<":">>)
                   \o <<"/", "/">> \o Principal(call) \o <<":">> \o call.pat
                   \o <<"@">> \o p.netloc
        IN  /\ Len(result) >= Len(pre)
            /\ SubSeq(result, 1, Len(pre)) = pre
            /\ Len(result) > Len(pre) => result[Len(pre) + 1] \in {"/", "?", "#"}

\* a call with a token and an empty username: token:token@host
C8_Witness ==
    /\ result # None
    /\ call.pat = Tok /\ call.username = <<>>
    /\ Contains(result, Tok \o <<":">> \o Tok \o <<"@","h",":","8">>)

\* the commands main invokes, in order
ExpectedCommands(c) ==
    <<cmd_configure(c), cmd_create(c), cmd_import(c), cmd_clone(c),
      cmd_remote_add(c), cmd_fetch(c), cmd_checkout(c)>>
    \o (IF Truthy(c.pat) \/ Truthy(c.env_pat)
        THEN <<cmd_config(c)>> ELSE <<>>)
    \o <<cmd_push(c)>>

\* C9: the commands invoked so far are the first commands of the fixed order,
\* every command but the last has completed, and a command is in flight only
\* while the last one has not completed.
C9_FixedOrder ==
    LET expected == ExpectedCommands(cfg) IN
    /\ Len(invoked) <= Len(expected)
    /\ \A i \in 1..Len(invoked) : invoked[i].cmd = expected[i]
    /\ Len(returncodes) \in {Len(invoked) - 1, Len(invoked)}
    /\ running => Len(returncodes) = Len(invoked) - 1

\* a complete run with a token: nine commands, the last one the push
C9_Witness ==
    /\ pc = "exit" /\ exitcode = 0
    /\ Len(invoked) = 9
    /\ invoked[8].step = "config" /\ invoked[9].step = "push"

\* the base URL of a repository, written out
BaseUrlOf(c, repo) ==
    c.org_url \o <<"/">> \o c.project \o <<"/","_","g","i","t","/">> \o repo

\* C10: the import is given orgUrl/project/_git/prodRepo; without a token the
\* clone and the remote-add are given the base URLs of the target and of the
\* non-prod repository.
C10_BaseUrls ==
    \A i \in 1..Len(invoked) :
        /\ invoked[i].step = "import" =>
              invoked[i].cmd[6] = BaseUrlOf(cfg, cfg.prod_repo)
        /\ (invoked[i].step = "clone" /\ ~Truthy(pat_of(cfg))) =>
              invoked[i].cmd[3] = BaseUrlOf(cfg, cfg.target)
        /\ (invoked[i].step = "remote_add" /\ ~Truthy(pat_of(cfg))) =>
              invoked[i].cmd[5] = BaseUrlOf(cfg, cfg.non_prod_repo)

\* a run without a token that has invoked import, clone and remote-add
C10_Witness ==
    /\ ~Truthy(pat_of(cfg))
    /\ Len(invoked) >= 5
    /\ invoked[5].cmd[5] = OrgB \o <<"/","F","/","_","g","i","t","/","n","p">>

\* the environment that answers git's credential prompts without a terminal
CredentialEnv(c) ==
    {<<"GIT_ASKPASS", Lit("echo")>>,
     <<"GIT_USERNAME", IF Truthy(username_of(c)) THEN username_of(c) ELSE pat_of(c)>>,
     <<"GIT_PASSWORD", pat_of(c)>>}

\* C11: with a token, git config credential.helper is invoked right after the
\* successful checkout -b and the push right after the successful git config,
\* with the credential environment; without a token no git config is invoked
\* and the push gets no additional environment.
C11_CredentialHelper ==
    \A i \in 1..Len(invoked) :
        /\ invoked[i].cmd = cmd_config(cfg) =>
              /\ Truthy(pat_of(cfg))
              /\ i > 1 /\ invoked[i - 1].cmd = cmd_checkout(cfg)
              /\ returncodes[i - 1] = 0
        /\ invoked[i].cmd = cmd_push(cfg) =>
              IF Truthy(pat_of(cfg))
              THEN /\ i > 1 /\ invoked[i - 1].cmd = cmd_config(cfg)
                   /\ returncodes[i - 1] = 0
                   /\ invoked[i].env = CredentialEnv(cfg)
              ELSE /\ i > 1 /\ invoked[i - 1].cmd = cmd_checkout(cfg)
                   /\ invoked[i].env = {}

\* the push of a run with a token taken from the environment and no username
C11_Witness ==
    /\ invoked # <<>>
    /\ LastInvoked.cmd = cmd_push(cfg)
    /\ cfg.env_pat = Tok /\ username_of(cfg) = None
    /\ <<"GIT_USERNAME", Tok>> \in LastInvoked.env
    /\ <<"GIT_PASSWORD", Tok>> \in LastInvoked.env

\* host[:port] of an authority: what follows its last '@'
HostPort(netloc) ==
    IF \E i \in 1..Len(netloc) : netloc[i] = "@"
    THEN LET k == CHOOSE i \in 1..Len(netloc) :
                     netloc[i] = "@" /\ \A j \in (i + 1)..Len(netloc) : netloc[j] # "@"
         IN  From(netloc, k + 1)
    ELSE netloc

\* C12: with a token and a base URL that has an authority, the returned URL
\* has the scheme and the path of the base URL, and its authority is exactly
\* principal:token@host[:port], also when the base URL carries user-info.
C12_ExactAuthority ==
    (result # None /\ Truthy(call.pat) /\ urlparse(call.base_url).netloc # <<>>) =>
        LET b == urlparse(call.base_url)
            r == urlparse(result)
        IN  /\ r.scheme = b.scheme
            /\ r.path = b.path
            /\ r.netloc = Principal(call) \o <<":">> \o call.pat \o <<"@">>
                          \o HostPort(b.netloc)

\* the warning of the repository-create handler is in the log
WarningLogged ==
    \E i \in 1..Len(log) :
        log[i] = [level |-> "WARNING",
                  msg |-> Lit("Repository ") \o cfg.target
                          \o Lit(" already exists, skipping creation")]

\* C13: whatever non-zero return code repository-create gives, the warning is
\* logged before the import is invoked next; the warning is logged for no
\* other reason; a failure of any other command is followed by no command;
\* and a run that ends on a failed command ends on a command after
\* repository-create, with that command's status.
C13_OnlyCreateRecovered ==
    /\ (CreateFailed /\ Len(invoked) >= 3) =>
           WarningLogged /\ invoked[3].cmd = cmd_import(cfg)
    /\ WarningLogged => CreateFailed
    /\ \A i \in 1..Len(returncodes) :
           (returncodes[i] # 0 /\ i # 2) => Len(invoked) = i
    /\ (pc = "exit" /\ raised.type = "CalledProcessError") =>
           /\ Len(returncodes) # 2
           /\ raised.cmd # cmd_create(cfg)
           /\ exitcode = LastReturnCode % 256

\* repository-create returned 255, the import ran, and the run later ended on
\* the failed push with status 1
C13_Witness ==
    /\ CreateFailed /\ returncodes[2] = 255
    /\ WarningLogged
    /\ pc = "exit" /\ exitcode = 1
    /\ LastInvoked.cmd = cmd_push(cfg)

\* the success summary is in the log
SummaryLogged ==
    \E i \in 1..Len(log) :
        log[i].level = "INFO" /\
        log[i].msg = Lit("<--- Migration finished.  Repo ") \o cfg.target
                     \o Lit(" now has\nmain -> prod history\n") \o cfg.dev_branch
                     \o Lit(" -> non-prod history --->")

\* every command of the fixed order has been invoked and has completed, and
\* every one but repository-create returned 0
AllSucceeded ==
    /\ Len(invoked) = Len(ExpectedCommands(cfg))
    /\ Len(returncodes) = Len(invoked)
    /\ \A i \in 1..Len(returncodes) : i # 2 => returncodes[i] = 0

\* C14 as stated: at the end of a run, the summary was emitted and the exit
\* code is 0 exactly when every command other than repository-create returned
\* 0 and there was no interruption; the summary was not emitted when the exit
\* code is not 0.
C14_SummaryIffSuccess ==
    pc = "exit" =>
        /\ (SummaryLogged /\ exitcode = 0) <=> (AllSucceeded /\ raised # KeyboardInterrupt)
        /\ SummaryLogged => exitcode = 0

\* C14 as amended: the summary is emitted only after every command other than
\* repository-create has returned 0; the exit code is 0 exactly when they all
\* returned 0 and there was no interruption, and then the summary was emitted;
\* a run with the summary ends with 0 or, interrupted after it, with 130.
C14_SummaryAfterSuccess ==
    /\ SummaryLogged => AllSucceeded
    /\ pc = "exit" =>
          /\ exitcode = 0 <=> (AllSucceeded /\ raised # KeyboardInterrupt)
          /\ exitcode = 0 => SummaryLogged
          /\ SummaryLogged => (exitcode = 0 \/ (exitcode = 130 /\ raised = KeyboardInterrupt))

\* a run with a token that emitted the summary and ended with exit code 0
C14_Witness ==
    /\ pc = "exit" /\ exitcode = 0
    /\ SummaryLogged /\ AllSucceeded
    /\ Len(invoked) = 9

\* C15: no command line is invoked twice, every command invoked is one of the
\* commands of the fixed order, and after the failure of a command other than
\* repository-create no command at all is invoked.
C15_AtMostOnce ==
    LET expected == ExpectedCommands(cfg) IN
    /\ \A i, j \in 1..Len(invoked) : i # j => invoked[i].cmd # invoked[j].cmd
    /\ \A i \in 1..Len(invoked) : \E k \in 1..Len(expected) : invoked[i].cmd = expected[k]
    /\ \A i \in 1..Len(returncodes) :
           (returncodes[i] # 0 /\ invoked[i].cmd # cmd_create(cfg)) =>
               \A j \in 1..Len(invoked) : j <= i

\* a run that ended on the failed import after a failed repository-create:
\* three commands were invoked, each once
C15_Witness ==
    /\ pc = "exit" /\ raised.type = "CalledProcessError"
    /\ Len(invoked) = 3 /\ Len(returncodes) = 3
    /\ returncodes[2] # 0 /\ returncodes[3] = 2
    /\ exitcode = 2

\* an invocation of the version-control tool
IsGit(e) == e.cmd[1] = Lit("git")

\* configure-defaults (1st command) and the import (3rd) have returned 0
ImportSucceeded ==
    /\ Len(returncodes) >= 3
    /\ returncodes[1] = 0
    /\ returncodes[3] = 0

\* C16: the working directory exists only after a successful import and
\* before the end of the run; a git command has been invoked only after a
\* successful import; and while a git command is in flight the working
\* directory exists.
C16_WorkdirLifetime ==
    /\ disk # {} => (ImportSucceeded /\ pc # "exit")
    /\ (\E i \in 1..Len(invoked) : IsGit(invoked[i])) => ImportSucceeded
    /\ (running /\ IsGit(LastInvoked)) => Lit("/tmp/tmpdir") \in disk

\* git fetch in flight, with the working directory and the clone on disk
C16_Witness ==
    /\ running
    /\ LastInvoked.cmd = cmd_fetch(cfg)
    /\ disk = {tempdir, target_clone_path}

====
